---- MODULE Spec2Model ----
(***************************************************************************)
(* A model of mlfluids: the metadata registries (utils/registry.py,        *)
(* fluid/phases.py, fluid/properties.py), the property-string parser and   *)
(* the Fluid state/dispatch engine (fluid/fluid.py).                       *)
(*                                                                         *)
(* Strings that the code inspects character by character (registry keys,   *)
(* property tokens, error messages) are sequences of one-character         *)
(* strings; strings that the code only passes around (display names,       *)
(* backend indices, backend labels) are TLA+ strings.  Python's None is    *)
(* the string "None".                                                      *)
(***************************************************************************)
EXTENDS Integers, Sequences, FiniteSets, TLC

VARIABLES registry, handlers, fluid, norm, input, last

vars == <<registry, handlers, fluid, norm, input, last>>

None == "None"

\* ------------------------------------------------------------ strings

LowerLetters == <<"a","b","c","d","e","f","g","h","i","j","k","l","m",
                  "n","o","p","q","r","s","t","u","v","w","x","y","z">>

UpperLetters == <<"A","B","C","D","E","F","G","H","I","J","K","L","M",
                  "N","O","P","Q","R","S","T","U","V","W","X","Y","Z">>

Digits == <<"0","1","2","3","4","5","6","7","8","9">>

\* str.upper() on one character: a lower-case letter becomes its capital,
\* every other character is kept.
UpperTable ==
    [c \in {LowerLetters[i] : i \in DOMAIN LowerLetters} |->
        UpperLetters[CHOOSE i \in DOMAIN LowerLetters : LowerLetters[i] = c]]

UpperChar(c) == IF c \in DOMAIN UpperTable THEN UpperTable[c] ELSE c

\* str.upper()
Upper(s) == [i \in DOMAIN s |-> UpperChar(s[i])]

IsDigit(c) == \E i \in DOMAIN Digits : Digits[i] = c

DigitVal(c) == (CHOOSE i \in DOMAIN Digits : Digits[i] = c) - 1

\* int("ddd")
RECURSIVE IntOf(_)
IntOf(ds) ==
    IF ds = <<>> THEN 0
    ELSE 10 * IntOf(SubSeq(ds, 1, Len(ds) - 1)) + DigitVal(ds[Len(ds)])

\* re.search(pat, s): pat (a literal) occurs somewhere in s.
Contains(s, pat) ==
    \E i \in 1..(Len(s) - Len(pat) + 1) : SubSeq(s, i, i + Len(pat) - 1) = pat

\* ------------------------------------------------------------ errors

NoErr == [type |-> None, msg |-> <<>>]

Err(t, m) == [type |-> t, msg |-> m]

MsgDuplicate == <<"d","u","p">>          \* "'<key>' já está registrado."
MsgNotInRegistry == <<"k","e","y">>      \* "'<key>' não encontrado no registro."
MsgIndexNotFound == <<"i","d","x">>      \* "Índice '<i>' não encontrado no registro."
MsgInvalidFormat == <<"f","m","t">>      \* "Invalid property string format: <s>"
MsgPropNotFound == <<"n","f">>           \* "Propriedade não encontrada: <s>"
MsgNoNormFluid == <<"r","e","f">>        \* "Fluido de referência não definido. ..."
MsgPhaseError == <<"f","a","s","e">>     \* "Erro na determinação da fase!"
MsgCalcError == <<"c","a","l","c">>      \* "Erro no cálculo da propriedade '<key>'."
MsgNoStrategy == <<"n","o">>             \* "Não foi possível calcular a propriedade '<key>'."
MsgNotBracketed == <<"s","i","g","n">>   \* brentq: "f(a) and f(b) must have different signs"
MsgNoState == <<"e","m","p","t","y">>    \* a query of a backend that was never flashed

\* ------------------------------------------------------------ registry

\* Item / Property / Phase (frozen dataclasses): the class, the key as the
\* caller wrote it, and the metadata.
MkItem(cls, key, name, cp, rp) ==
    [cls |-> cls, key |-> key, name |-> name, cp_index |-> cp, rp_label |-> rp]

NoItem == MkItem(None, <<>>, None, None, None)

K_T == <<"T">>
K_P == <<"P">>
K_D == <<"D">>
K_PIP == <<"P","I","P">>
K_VIS == <<"V","I","S">>
K_TCX == <<"T","C","X">>
K_PHASE == <<"P","H","A","S","E">>
K_liquid == <<"l","i","q","u","i","d">>
K_gas == <<"g","a","s">>
K_supercritical == <<"s","u","p","e","r","c","r","i","t","i","c","a","l">>
K_supercritical_gas == K_supercritical \o <<"_">> \o K_gas
K_supercritical_liquid == K_supercritical \o <<"_">> \o K_liquid
K_critical_point == <<"c","r","i","t","i","c","a","l","_","p","o","i","n","t">>
K_twophase == <<"t","w","o","p","h","a","s","e">>

\* _register_default_phases
DefaultPhases ==
    << MkItem("Phase", K_liquid, "liquid", "iphase_liquid", "L"),
       MkItem("Phase", K_gas, "gas", "iphase_gas", "G"),
       MkItem("Phase", K_supercritical_gas, "supercritical gas",
              "iphase_supercritical_gas", "G"),
       MkItem("Phase", K_supercritical_liquid, "supercritical liquid",
              "iphase_supercritical_liquid", "L"),
       MkItem("Phase", K_supercritical, "supercritical",
              "iphase_supercritical", None),
       MkItem("Phase", K_critical_point, "critical point",
              "iphase_critical_point", None),
       MkItem("Phase", K_twophase, "twophase", "iphase_twophase", None) >>

\* _register_default_properties
DefaultProperties ==
    << MkItem("Property", K_T, "temperature", "iT", "T"),
       MkItem("Property", K_P, "pressure", "iP", "P"),
       MkItem("Property", K_D, "molar density", "iDmolar", "D"),
       MkItem("Property", K_PIP, "phase indication parameter", "iPIP", "PIP"),
       MkItem("Property", K_VIS, "shear viscosity", "iviscosity", "VIS"),
       MkItem("Property", K_TCX, "thermal conductivity", "iconductivity", "TCX") >>

\* Registry.register with the key stored and compared as written, not
\* upper-cased.
RegisterOpKeepCase(reg, item) ==
    IF item.key \in DOMAIN reg
    THEN [reg |-> reg, err |-> Err("ValueError", MsgDuplicate)]
    ELSE [reg |-> reg @@ (item.key :> item), err |-> NoErr]

\* The body of Registry.register once the key is computed.
RegisterAt(reg, key, item) ==
    IF key \in DOMAIN reg
    THEN [reg |-> reg, err |-> Err("ValueError", MsgDuplicate)]
    ELSE [reg |-> reg @@ (key :> item), err |-> NoErr]

\* Registry.register.  Registry._registry is one dict, created on the base
\* class and never rebound by PropertyRegistry or PhaseRegistry, so every
\* registry class reads and writes the same table: cls plays no part.
RegisterOp(reg, item) == RegisterAt(reg, Upper(item.key), item)

\* Registry.register_many: stops at the first item that fails.
RECURSIVE RegisterMany(_, _)
RegisterManyNext(r, items) ==
    IF r.err # NoErr THEN r ELSE RegisterMany(r.reg, items)

RegisterMany(reg, items) ==
    IF items = <<>> THEN [reg |-> reg, err |-> NoErr]
    ELSE RegisterManyNext(RegisterOp(reg, Head(items)), Tail(items))

\* The table lookup of Registry.get: cls._registry[key], KeyError when
\* absent.
Lookup(reg, key) ==
    IF key \in DOMAIN reg
    THEN [item |-> reg[key], err |-> NoErr]
    ELSE [item |-> NoItem, err |-> Err("KeyError", MsgNotInRegistry)]

\* Registry.get
GetOp(reg, key) == Lookup(reg, Upper(key))

\* PhaseRegistry.get_cp_index: the first item of the table with that
\* backend index.  The model's backend indices are distinct names, so at
\* most one item of the initial table has a given index.
GetCpIndexOp(reg, idx) ==
    IF \E k \in DOMAIN reg : reg[k].cp_index = idx
    THEN [item |-> reg[CHOOSE k \in DOMAIN reg : reg[k].cp_index = idx],
          err |-> NoErr]
    ELSE [item |-> NoItem, err |-> Err("KeyError", MsgIndexNotFound)]

EmptyRegistry == [k \in {} |-> NoItem]

\* The table after the package is imported: fluid.py imports phases, then
\* properties, and registers PHASE (with its handler) at its end.
InitRegistry ==
    RegisterOp(RegisterMany(RegisterMany(EmptyRegistry, DefaultPhases).reg,
                            DefaultProperties).reg,
               MkItem("Property", K_PHASE, None, None, None)).reg

\* ------------------------------------------------------------ parser

\* The characters the parser's inputs are built from.
Alphabet == {"T", "t", "1", "(", ")", "*"}

\* Longest token built from Alphabet that the parser is given.
MaxTokLen == 5

\* Every string over Alphabet up to MaxTokLen, and tokens with an
\* unregistered base, with the key of a phase, with registered keys of
\* several letters, and with newlines.
Tokens ==
    UNION {[1..n -> Alphabet] : n \in 0..MaxTokLen}
    \cup { <<"Z","Z","Z">>, <<"g","a","s">>, <<"G","A","S","*">>,
           <<"V","I","S","(","1",")">>, <<"T","C","X","(","2",")","*">>,
           <<"P","*">>, <<"p","h","a","s","e">>, <<"_">>,
           <<"T","\n">>, <<"T","*","\n">>, <<"T","\n","\n">>,
           <<"\n","T">>, <<"T","\n","*">> }

\* No output index (groupdict["index"] is None).
NoIndex == -1

\* [A-Z0-9_]
BaseChars ==
    {UpperLetters[i] : i \in DOMAIN UpperLetters}
    \cup {Digits[i] : i \in DOMAIN Digits} \cup {"_"}

IsBaseChar(c) == c \in BaseChars

\* How many characters from position i on are in [A-Z0-9_] (a greedy +).
RECURSIVE BaseRun(_, _)
BaseRun(s, i) ==
    IF i <= Len(s) /\ IsBaseChar(s[i]) THEN 1 + BaseRun(s, i + 1) ELSE 0

\* How many characters from position i on are digits (a greedy \d+).
RECURSIVE DigitRun(_, _)
DigitRun(s, i) ==
    IF i <= Len(s) /\ IsDigit(s[i]) THEN 1 + DigitRun(s, i + 1) ELSE 0

NoMatch == [ok |-> FALSE, prop |-> <<>>, index |-> <<>>, normalized |-> FALSE]

\* The end of PROPERTY_REGEX, (?P<normalized>\*)?$, from position p2 on,
\* after a base of b characters and, if hasIdx, an index of d digits.
\* Python's "$" (no MULTILINE) matches at the end of the string and just
\* before a newline that ends it.
RegexEnd(s, b, d, hasIdx, p2) ==
    LET star == p2 <= Len(s) /\ s[p2] = "*"
        p3 == IF star THEN p2 + 1 ELSE p2
        atEnd == p3 = Len(s) + 1 \/ (p3 = Len(s) /\ s[p3] = "\n")
    IN  IF b = 0 \/ ~atEnd THEN NoMatch
        ELSE [ok |-> TRUE,
              prop |-> SubSeq(s, 1, b),
              index |-> IF hasIdx THEN SubSeq(s, b + 2, b + 1 + d) ELSE <<>>,
              normalized |-> star]

\* The optional index of PROPERTY_REGEX, (?:\((?P<index>\d+)\))?, after a
\* base of b characters followed by d digits behind a "(" (d = 0: none).
RegexIndex(s, b, d) ==
    IF d >= 1 /\ b + d + 2 <= Len(s) /\ s[b + d + 2] = ")"
    THEN RegexEnd(s, b, d, TRUE, b + d + 3)
    ELSE RegexEnd(s, b, d, FALSE, b + 1)

\* The base of PROPERTY_REGEX, ^(?P<prop>[A-Z0-9_]+), b characters long.
RegexBase(s, b) ==
    RegexIndex(s, b, IF b + 1 <= Len(s) /\ s[b + 1] = "("
                     THEN DigitRun(s, b + 2) ELSE 0)

\* PROPERTY_REGEX.match(s):
\*   ^(?P<prop>[A-Z0-9_]+)(?:\((?P<index>\d+)\))?(?P<normalized>\*)?$
\* The three parts start with characters of disjoint classes, so the greedy
\* scan never has to give a character back.
RegexMatch(s) == RegexBase(s, BaseRun(s, 1))

ParseFail(msg) ==
    [prop |-> NoItem, index |-> NoIndex, normalized |-> FALSE,
     err |-> Err("ValueError", msg)]

\* parse_property_string after the registry lookup: KeyError becomes
\* ValueError.
ParseFound(m, got) ==
    IF got.err # NoErr THEN ParseFail(MsgPropNotFound)
    ELSE [prop |-> got.item,
          index |-> IF m.index # <<>> THEN IntOf(m.index) ELSE NoIndex,
          normalized |-> m.normalized,
          err |-> NoErr]

\* parse_property_string after the match.
ParseMatched(reg, m) ==
    IF ~m.ok THEN ParseFail(MsgInvalidFormat)
    ELSE ParseFound(m, GetOp(reg, Upper(m.prop)))

\* parse_property_string
ParsePropertyString(reg, prop_str) == ParseMatched(reg, RegexMatch(Upper(prop_str)))

\* ------------------------------------------------------------ backend

\* Numbers are integers in units of 1e-8 (np.isclose's default atol), so
\* 1.0 is Scale.
Scale == 100000000

\* A float NaN as the backend may return it: every comparison with it is
\* false.
NaN == -2000000000

\* Fluid._T, _P, _D before the first set_state (None).
NoValue == -1

\* The backend indices that the backend's keyed_output knows.
CpParams == {"iT", "iP", "iDmolar", "iQ", "iPIP", "iviscosity", "iconductivity"}

\* cp.AbstractState: the imposed phase and the state it was last flashed
\* to.  via is the update that produced the state ("none" before the first
\* update, "failed" after an update that raised); out gives keyed_output.
NewBackend ==
    [imposed |-> "iphase_not_imposed",
     via |-> "none",
     out |-> [i \in CpParams |-> 0]]

\* AbstractState.update / update_with_guesses on the pair (i1, v1), (i2, v2)
\* when it converges: the backend reproduces its two inputs and gives every
\* other parameter the value w the equation of state yields (the
\* environment's choice).
Flashed(bs, via, i1, v1, i2, v2, w) ==
    [bs EXCEPT !.via = via,
               !.out = [i \in CpParams |->
                           IF i = i1 THEN v1 ELSE IF i = i2 THEN v2 ELSE w]]

\* An update that raised: the backend holds no state to query.
FailedUpdate(bs) == [bs EXCEPT !.via = "failed", !.out = [i \in CpParams |-> 0]]

\* AbstractState.keyed_output(idx), T(), p(), rhomolar()
KeyedOutput(bs, idx) ==
    IF bs.via \in {"none", "failed"} \/ idx \notin CpParams
    THEN [v |-> 0, err |-> Err("ValueError", MsgNoState)]
    ELSE [v |-> bs.out[idx], err |-> NoErr]

\* ------------------------------------------------------------ fluid

\* Fluid.__init__
NewFluid ==
    [phase |-> NoItem, phase_imposed |-> FALSE,
     T |-> NoValue, P |-> NoValue, D |-> NoValue,
     state |-> NewBackend]

\* Fluid.specify_phase after the registry lookup.  self.phase is assigned
\* before the backend is told; an item without a backend index (cp_index
\* None) makes the backend call raise TypeError after that assignment.
SpecifyPhaseFound(f, got, impose) ==
    IF got.err # NoErr THEN [f |-> f, err |-> got.err]
    ELSE IF got.item.cp_index = None
    THEN [f |-> [f EXCEPT !.phase = got.item], err |-> Err("TypeError", <<>>)]
    ELSE [f |-> [f EXCEPT !.phase = got.item,
                          !.state.imposed = got.item.cp_index,
                          !.phase_imposed = IF impose THEN TRUE ELSE @],
          err |-> NoErr]

\* Fluid.specify_phase
SpecifyPhaseOp(f, reg, phase_key, impose) ==
    SpecifyPhaseFound(f, GetOp(reg, phase_key), impose)

Abs(x) == IF x < 0 THEN -x ELSE x

\* np.isclose(a, b) with the defaults rtol = 1e-5, atol = 1e-8:
\* |a - b| <= atol + rtol * |b|.
IsClose(a, b) ==
    a # NaN /\ b # NaN /\ Abs(a - b) <= 1 + Abs(b) \div 100000

\* a < b and a <= b on floats.
Lt(a, b) == a # NaN /\ b # NaN /\ a < b
Le(a, b) == a # NaN /\ b # NaN /\ a <= b

\* The manual table of _calc_phase with the quality rows tried first.
ManualPhaseKeyQFirst(Q, T_r, P_r) ==
    IF Lt(Scale, Q) THEN K_gas
    ELSE IF Lt(Q, 0) THEN K_liquid
    ELSE IF IsClose(T_r, Scale) /\ IsClose(P_r, Scale) THEN K_critical_point
    ELSE IF Le(Scale, T_r) /\ Le(Scale, P_r) THEN K_supercritical
    ELSE IF Lt(Scale, T_r) /\ Lt(P_r, Scale) THEN K_supercritical_gas
    ELSE IF Lt(T_r, Scale) /\ Lt(Scale, P_r) THEN K_supercritical_liquid
    ELSE IF Le(0, Q) /\ Le(Q, Scale) THEN K_twophase
    ELSE <<>>

\* The manual table of _calc_phase with a tolerance of 1% for the critical
\* point.
ManualPhaseKeyOnePercent(Q, T_r, P_r) ==
    IF T_r # NaN /\ P_r # NaN /\ Abs(T_r - Scale) <= Scale \div 100
       /\ Abs(P_r - Scale) <= Scale \div 100 THEN K_critical_point
    ELSE IF Le(Scale, T_r) /\ Le(Scale, P_r) THEN K_supercritical
    ELSE IF Lt(Scale, T_r) /\ Lt(P_r, Scale) THEN K_supercritical_gas
    ELSE IF Lt(T_r, Scale) /\ Lt(Scale, P_r) THEN K_supercritical_liquid
    ELSE IF Lt(Scale, Q) THEN K_gas
    ELSE IF Lt(Q, 0) THEN K_liquid
    ELSE IF Le(0, Q) /\ Le(Q, Scale) THEN K_twophase
    ELSE <<>>

\* The manual table of _calc_phase (the if/elif chain): the key of the
\* phase, or <<>> when the chain reaches its else (raise ValueError).
ManualPhaseKey(Q, T_r, P_r) ==
    IF IsClose(T_r, Scale) /\ IsClose(P_r, Scale) THEN K_critical_point
    ELSE IF Le(Scale, T_r) /\ Le(Scale, P_r) THEN K_supercritical
    ELSE IF Lt(Scale, T_r) /\ Lt(P_r, Scale) THEN K_supercritical_gas
    ELSE IF Lt(T_r, Scale) /\ Lt(Scale, P_r) THEN K_supercritical_liquid
    ELSE IF Lt(Scale, Q) THEN K_gas
    ELSE IF Lt(Q, 0) THEN K_liquid
    ELSE IF Le(0, Q) /\ Le(Q, Scale) THEN K_twophase
    ELSE <<>>

\* PhaseRegistry.get(key) for the key the manual table gives.
ManualPhaseGet(reg, key) ==
    IF key = <<>>
    THEN [item |-> NoItem, err |-> Err("ValueError", MsgPhaseError)]
    ELSE GetOp(reg, key)

\* The except branch of _calc_phase: the phase by the manual table.
ManualPhase(reg, Q, T_r, P_r) == ManualPhaseGet(reg, ManualPhaseKey(Q, T_r, P_r))

\* Backend messages: <<>> is an update that converged.
Converged == <<>>
MsgTwoPhase == <<"T","w","o","-","P","h","a","s","e">>
Msg2Phase == <<"2","-","p","h","a","s","e">>
MsgOther == <<"r","a","n","g","e">>

\* re.search(r"(2-phase|two-phase)", str(e), re.IGNORECASE)
IsTwoPhaseMessage(msg) ==
    \/ Contains(Upper(msg), <<"2","-","P","H","A","S","E">>)
    \/ Contains(Upper(msg), <<"T","W","O","-","P","H","A","S","E">>)

\* The end of _calc_phase ("Fase determinada. Refazer o Flash."): the phase
\* is recorded and imposed on the backend, the backend is flashed again on
\* (rhomolar, T), the backend's imposed phase is cleared.
CalcPhaseFound(f, got, reflash) ==
    IF got.err # NoErr THEN [f |-> f, err |-> got.err]
    ELSE IF reflash # Converged
    THEN [f |-> [f EXCEPT !.phase = got.item,
                          !.state = [FailedUpdate(f.state) EXCEPT
                                        !.imposed = got.item.cp_index]],
          err |-> Err("ValueError", reflash)]
    ELSE [f |-> [f EXCEPT !.phase = got.item,
                          !.state.via = "DmolarT",
                          !.state.imposed = "iphase_not_imposed"],
          err |-> NoErr]

\* Fluid._calc_phase.  env is what the backend does during the call:
\* env.cls is the index phase() returns ("raise": phase() raises
\* ValueError), env.Q, env.Tr, env.Pr are Q(), T()/T_critical() and
\* p()/p_critical(), env.reflash is the message of the D,T update
\* (Converged: none).
CalcPhase(f, reg, env) ==
    IF f.phase_imposed = TRUE THEN [f |-> f, err |-> NoErr]
    ELSE IF env.cls # "raise"
    THEN CalcPhaseFound(f, GetCpIndexOp(reg, env.cls), env.reflash)
    ELSE CalcPhaseFound(f, ManualPhase(reg, env.Q, env.Tr, env.Pr), env.reflash)

\* ------------------------------------------------------------ set_state

\* Fluid._NORM_FLUID: a reference to a Fluid instance.  ref is "None" (not
\* set), "self" (the instance under analysis itself) or "other" (another
\* instance, whose state is f).
NoNorm == [ref |-> None, f |-> NewFluid]

\* get_normalizing_fluid answering with the calling instance while no
\* normalizing fluid is set.
GetNormalizingFluidDefaultSelf(nf, f) ==
    [f |-> IF nf.ref = "other" THEN nf.f ELSE f, err |-> NoErr]

\* get_normalizing_fluid answering with a copy of the instance taken when
\* set_normalizing_fluid was called.
GetNormalizingFluidStored(nf, f) ==
    IF nf.ref = None
    THEN [f |-> NewFluid, err |-> Err("ValueError", MsgNoNormFluid)]
    ELSE [f |-> nf.f, err |-> NoErr]

\* Fluid.get_normalizing_fluid
GetNormalizingFluid(nf, f) ==
    IF nf.ref = None
    THEN [f |-> NewFluid, err |-> Err("ValueError", MsgNoNormFluid)]
    ELSE [f |-> IF nf.ref = "self" THEN f ELSE nf.f, err |-> NoErr]

\* cp.generate_update_pair: the two parameters must be a pair the backend
\* can flash on.
FlashInputs == {"iT", "iP", "iDmolar", "iQ"}

ValidPair(i1, i2) == i1 \in FlashInputs /\ i2 \in FlashInputs /\ i1 # i2

\* What one set_state call did: the instance after it, the exception that
\* left it (NoErr: it returned normally), the update path of its primary
\* flash ("none": the call did not get that far) with the guess supplied,
\* and how many primary flashes and root searches it started.
SetStateResult(f, err, path, guess, nflash, nroot) ==
    [f |-> f, err |-> err, path |-> path, guess |-> guess,
     nflash |-> nflash, nroot |-> nroot]

NoGuess == <<NoValue, NoValue, NoValue>>

\* The end of set_state ("Atualiza os parâmetros de estado"): _T, _P, _D
\* are read from the backend.
RecordState(f) ==
    [f EXCEPT !.T = KeyedOutput(f.state, "iT").v,
              !.P = KeyedOutput(f.state, "iP").v,
              !.D = KeyedOutput(f.state, "iDmolar").v]

\* The root search of set_state's handler with its failure swallowed: the
\* call goes on as if the search had converged.
RootSearchSwallow(sp, i1, value_1, env) ==
    IF sp.err # NoErr THEN [f |-> sp.f, err |-> sp.err, nroot |-> 0]
    ELSE [f |-> [sp.f EXCEPT !.state =
                    Flashed(sp.f.state, "rootsearch", "iQ", env.rootQ,
                            i1, value_1, env.w)],
          err |-> NoErr, nroot |-> 1]

\* brentq(residual, 0.0, 1.0, xtol=1e-3) in set_state's handler, after
\* specify_phase("twophase", impose=False) gave sp; each residual flashes
\* the backend on (Q, prop_1).  env.root is what the search meets:
\* "converged" (it ends with the backend flashed at env.rootQ),
\* "unbracketed" (the residual has one sign at Q = 0 and at Q = 1: brentq
\* raises ValueError after flashing at both ends) or "update_failed" (the
\* backend's update raises inside the residual).  nroot counts the root
\* searches started.
RootSearch(sp, i1, value_1, env) ==
    IF sp.err # NoErr THEN [f |-> sp.f, err |-> sp.err, nroot |-> 0]
    ELSE IF env.root = "converged"
    THEN [f |-> [sp.f EXCEPT !.state =
                    Flashed(sp.f.state, "rootsearch", "iQ", env.rootQ,
                            i1, value_1, env.w)],
          err |-> NoErr, nroot |-> 1]
    ELSE IF env.root = "unbracketed"
    THEN [f |-> [sp.f EXCEPT !.state =
                    Flashed(sp.f.state, "rootsearch", "iQ", Scale,
                            i1, value_1, env.w)],
          err |-> Err("ValueError", MsgNotBracketed), nroot |-> 1]
    ELSE [f |-> [sp.f EXCEPT !.state = FailedUpdate(sp.f.state)],
          err |-> Err("ValueError", MsgOther), nroot |-> 1]

\* The two-phase branch of set_state's handler.
Fallback(f, reg, i1, value_1, env) ==
    RootSearch(SpecifyPhaseOp(f, reg, K_twophase, FALSE), i1, value_1, env)

\* set_state after its handler's two-phase branch gave fb.
SetStateRecovered(fb, path, guess) ==
    IF fb.err # NoErr
    THEN SetStateResult(fb.f, fb.err, path, guess, 1, fb.nroot)
    ELSE SetStateResult(RecordState(fb.f), NoErr, path, guess, 1, fb.nroot)

\* set_state's handler with the re-raising branch recording the state
\* triple before it leaves.
SetStateHandlerRecord(fe, e, reg, i1, value_1, env, path, guess) ==
    IF IsTwoPhaseMessage(e.msg)
    THEN SetStateRecovered(Fallback(fe, reg, i1, value_1, env), path, guess)
    ELSE SetStateResult(RecordState(fe), e, path, guess, 1, 0)

\* The "except ValueError as e" handler of set_state, entered with the
\* instance fe as the try block left it.  The try block holds the flash
\* update and _calc_phase alike: e may come from either.
SetStateHandler(fe, e, reg, i1, value_1, env, path, guess) ==
    IF IsTwoPhaseMessage(e.msg)
    THEN SetStateRecovered(Fallback(fe, reg, i1, value_1, env), path, guess)
    ELSE SetStateResult(fe, e, path, guess, 1, 0)

\* set_state after the primary flash converged and _calc_phase gave cp: a
\* ValueError goes to the handler, any other exception leaves the call.
SetStatePhased(cp, reg, i1, value_1, env, path, guess) ==
    IF cp.err.type = "ValueError"
    THEN SetStateHandler(cp.f, cp.err, reg, i1, value_1, env, path, guess)
    ELSE IF cp.err # NoErr
    THEN SetStateResult(cp.f, cp.err, path, guess, 1, 0)
    ELSE SetStateResult(RecordState(cp.f), NoErr, path, guess, 1, 0)

\* The primary flash of set_state by the update path chosen.
SetStateUpdate(f, reg, i1, value_1, i2, value_2, env, path, guess) ==
    IF env.flash # Converged
    THEN SetStateHandler([f EXCEPT !.state = FailedUpdate(f.state)],
                         Err("ValueError", env.flash),
                         reg, i1, value_1, env, path, guess)
    ELSE SetStatePhased(
           CalcPhase([f EXCEPT !.state = Flashed(f.state, path, i1, value_1,
                                                 i2, value_2, env.w)],
                     reg, env),
           reg, i1, value_1, env, path, guess)

\* The try block of set_state taking the guess-accepting path whenever
\* use_guesses is set.
SetStateFlashGuessAlways(f, reg, i1, value_1, i2, value_2, use_guesses, env) ==
    IF i1 \notin CpParams \/ i2 \notin CpParams
    THEN SetStateResult(f, Err("TypeError", <<>>), "none", NoGuess, 0, 0)
    ELSE IF ~ValidPair(i1, i2)
    THEN SetStateResult(f, Err("ValueError", MsgOther), "none", NoGuess, 0, 0)
    ELSE IF use_guesses
    THEN SetStateUpdate(f, reg, i1, value_1, i2, value_2, env,
                        "update_with_guesses", <<f.T, f.P, f.D>>)
    ELSE SetStateUpdate(f, reg, i1, value_1, i2, value_2, env,
                        "update", NoGuess)

\* The try block of set_state, entered with the parsed properties' backend
\* indices and the resolved values: the guess-accepting path is taken when
\* use_guesses is set and _D is not None.
SetStateFlash(f, reg, i1, value_1, i2, value_2, use_guesses, env) ==
    IF i1 \notin CpParams \/ i2 \notin CpParams
    THEN SetStateResult(f, Err("TypeError", <<>>), "none", NoGuess, 0, 0)
    ELSE IF ~ValidPair(i1, i2)
    THEN SetStateResult(f, Err("ValueError", MsgOther), "none", NoGuess, 0, 0)
    ELSE IF use_guesses /\ f.D # NoValue
    THEN SetStateUpdate(f, reg, i1, value_1, i2, value_2, env,
                        "update_with_guesses", <<f.T, f.P, f.D>>)
    ELSE SetStateUpdate(f, reg, i1, value_1, i2, value_2, env,
                        "update", NoGuess)

\* set_state flashing on the values as given, normalized or not.
SetStateScaledNoMultiply(f, reg, a, b, k1, k2, prop_values, use_guesses, env) ==
    IF a.normalized /\ k1.err # NoErr
    THEN SetStateResult(f, k1.err, "none", NoGuess, 0, 0)
    ELSE IF b.normalized /\ k2.err # NoErr
    THEN SetStateResult(f, k2.err, "none", NoGuess, 0, 0)
    ELSE SetStateFlash(f, reg, a.prop.cp_index, prop_values[1],
                       b.prop.cp_index, prop_values[2], use_guesses, env)

\* set_state once the normalizing fluid's values k1, k2 are read
\* ("Calcula o valor real das propriedades normalizadas").
SetStateScaled(f, reg, a, b, k1, k2, prop_values, use_guesses, env) ==
    IF a.normalized /\ k1.err # NoErr
    THEN SetStateResult(f, k1.err, "none", NoGuess, 0, 0)
    ELSE IF b.normalized /\ k2.err # NoErr
    THEN SetStateResult(f, k2.err, "none", NoGuess, 0, 0)
    ELSE SetStateFlash(
           f, reg,
           a.prop.cp_index,
           IF a.normalized THEN prop_values[1] * k1.v ELSE prop_values[1],
           b.prop.cp_index,
           IF b.normalized THEN prop_values[2] * k2.v ELSE prop_values[2],
           use_guesses, env)

\* set_state once both tokens are parsed and, for a normalized one, the
\* normalizing fluid n is fetched.
SetStateParsed(f, reg, a, b, n, prop_values, use_guesses, env) ==
    IF a.err # NoErr THEN SetStateResult(f, a.err, "none", NoGuess, 0, 0)
    ELSE IF b.err # NoErr THEN SetStateResult(f, b.err, "none", NoGuess, 0, 0)
    ELSE IF (a.normalized \/ b.normalized) /\ n.err # NoErr
    THEN SetStateResult(f, n.err, "none", NoGuess, 0, 0)
    ELSE SetStateScaled(f, reg, a, b,
                        KeyedOutput(n.f.state, a.prop.cp_index),
                        KeyedOutput(n.f.state, b.prop.cp_index),
                        prop_values, use_guesses, env)

\* Fluid.set_state
SetStateOp(f, reg, nf, prop_str_1, prop_str_2, prop_values, use_guesses, env) ==
    SetStateParsed(f, reg,
                   ParsePropertyString(reg, prop_str_1),
                   ParsePropertyString(reg, prop_str_2),
                   GetNormalizingFluid(nf, f),
                   prop_values, use_guesses, env)

\* ------------------------------------------------------------ calc_props

\* A computed value: a number num/den (a float; den is 1 unless the value
\* was normalized) or, when str is not None, a string, or its character at
\* position at when at is an index.
Num(n) == [num |-> n, den |-> 1, str |-> None, at |-> NoIndex]
Str(t) == [num |-> 0, den |-> 1, str |-> t, at |-> NoIndex]
StrAt(t, i) == [num |-> 0, den |-> 1, str |-> t, at |-> i]

NoLabel == [base |-> "", n |-> NoIndex]

\* What a strategy returns: the value, the exception, and the request
\* label sent to the reference backend (NoLabel: none was sent).
Computed(val, err, label) == [val |-> val, err |-> err, label |-> label]

\* Fluid._calc_prop_hd.  The handler of PHASE is _calc_phase at the end of
\* fluid.py (self.phase.name); any other handler is the user's function,
\* whose result, the float hv, is the environment's choice.  With an
\* output index the result is subscripted: a character of the phase's name
\* (the indices tried are within the names), TypeError on a float.
CalcPropHd(f, hd, prop, out_index, hv) ==
    IF prop.key \notin hd
    THEN Computed(Num(0), Err("ValueError", MsgCalcError), NoLabel)
    ELSE IF prop.key = K_PHASE
    THEN IF f.phase = NoItem
         THEN Computed(Num(0), Err("AttributeError", <<>>), NoLabel)
         ELSE IF out_index = NoIndex
         THEN Computed(Str(f.phase.name), NoErr, NoLabel)
         ELSE Computed(StrAt(f.phase.name, out_index), NoErr, NoLabel)
    ELSE IF out_index = NoIndex THEN Computed(Num(hv), NoErr, NoLabel)
    ELSE Computed(Num(0), Err("TypeError", <<>>), NoLabel)

\* Fluid._calc_prop_cp after keyed_output gave k.
CalcPropCpRead(k, out_index) ==
    IF k.err # NoErr THEN Computed(Num(0), k.err, NoLabel)
    ELSE IF out_index # NoIndex
    THEN Computed(Num(0), Err("TypeError", <<>>), NoLabel)
    ELSE Computed(Num(k.v), NoErr, NoLabel)

\* Fluid._calc_prop_cp
CalcPropCp(f, prop, out_index) ==
    IF prop.cp_index = None
    THEN Computed(Num(0), Err("ValueError", MsgCalcError), NoLabel)
    ELSE CalcPropCpRead(KeyedOutput(f.state, prop.cp_index), out_index)

\* The call of REFPROPdll in _calc_prop_rp with the label sent; rpv is
\* results.Output[0], ierr is results.ierr.
CalcPropRpCall(f, label, rpv, ierr) ==
    IF KeyedOutput(f.state, "iT").err # NoErr
    THEN Computed(Num(0), KeyedOutput(f.state, "iT").err, NoLabel)
    ELSE IF ierr > 100
    THEN Computed(Num(0), Err("ValueError", MsgOther), label)
    ELSE Computed(Num(rpv), NoErr, label)

\* Fluid._calc_prop_rp.  The label argument is
\*   prop.rp_label + str(out_index + 1) if out_index else ""
\* which Python reads as (label + index) if out_index else "": None and 0
\* are both false.
CalcPropRp(f, prop, out_index, rpv, ierr) ==
    IF prop.rp_label = None
    THEN Computed(Num(0), Err("ValueError", MsgCalcError), NoLabel)
    ELSE IF out_index # NoIndex /\ out_index # 0
    THEN CalcPropRpCall(f, [base |-> prop.rp_label, n |-> out_index + 1],
                        rpv, ierr)
    ELSE CalcPropRpCall(f, NoLabel, rpv, ierr)

\* The strategy selection of _calc_prop with the primary backend tried
\* before the handler table.
SelectStrategyCpFirst(hd, prop) ==
    IF prop.cp_index # None THEN "_calc_prop_cp"
    ELSE IF prop.key \in hd THEN "_calc_prop_hd"
    ELSE IF prop.rp_label # None THEN "_calc_prop_rp"
    ELSE None

\* The strategy selection of _calc_prop (its if/elif chain): the name of
\* the method, or None when the chain reaches its else (raise ValueError).
SelectStrategy(hd, prop) ==
    IF prop.key \in hd THEN "_calc_prop_hd"
    ELSE IF prop.cp_index # None THEN "_calc_prop_cp"
    ELSE IF prop.rp_label # None THEN "_calc_prop_rp"
    ELSE None

\* getattr(fluid, calc_method_name)(prop, out_index)
CallStrategy(name, f, hd, prop, out_index, hv, rpv, ierr) ==
    IF name = "_calc_prop_hd" THEN CalcPropHd(f, hd, prop, out_index, hv)
    ELSE IF name = "_calc_prop_cp" THEN CalcPropCp(f, prop, out_index)
    ELSE CalcPropRp(f, prop, out_index, rpv, ierr)

\* value /= reference
Divide(a, b) ==
    IF a.str # None \/ b.str # None
    THEN [val |-> a, err |-> Err("TypeError", <<>>)]
    ELSE IF b.num = 0
    THEN [val |-> a, err |-> Err("ZeroDivisionError", <<>>)]
    ELSE IF (a.num * b.den) % (a.den * b.num) = 0
    THEN [val |-> Num((a.num * b.den) \div (a.den * b.num)), err |-> NoErr]
    ELSE [val |-> [num |-> a.num * b.den, den |-> a.den * b.num,
                   str |-> None, at |-> NoIndex],
          err |-> NoErr]

\* What one _calc_prop call did: the value, the exception, the strategy
\* selected, the strategy evaluated on the normalizing fluid (None: none)
\* and the label sent to the reference backend.
CalcResult(val, err, method, normMethod, label) ==
    [val |-> val, err |-> err, method |-> method,
     normMethod |-> normMethod, label |-> label]

\* _calc_prop after the division.
CalcPropDivided(q, name, label) ==
    IF q.err # NoErr THEN CalcResult(Num(0), q.err, name, name, label)
    ELSE CalcResult(q.val, NoErr, name, name, label)

\* The normalization of _calc_prop: the strategy named normName was
\* evaluated on the normalizing fluid and gave ref.
CalcPropNormalized(raw, name, normName, ref) ==
    IF ref.err # NoErr THEN CalcResult(Num(0), ref.err, name, normName, raw.label)
    ELSE CalcPropDivided(Divide(raw.val, ref.val), name, raw.label)

\* _calc_prop after the strategy gave raw ("Cálculo e normalização"): a
\* normalized request evaluates the same strategy on the normalizing fluid.
CalcPropComputed(p, name, raw, n, hd, cenv) ==
    IF raw.err # NoErr THEN CalcResult(Num(0), raw.err, name, None, raw.label)
    ELSE IF ~p.normalized THEN CalcResult(raw.val, NoErr, name, None, raw.label)
    ELSE IF n.err # NoErr THEN CalcResult(Num(0), n.err, name, None, raw.label)
    ELSE CalcPropNormalized(
           raw, name, name,
           CallStrategy(name, n.f, hd, p.prop, p.index,
                        cenv.nhv, cenv.nrpv, cenv.ierr))

\* _calc_prop after the strategy is selected.
CalcPropSelected(f, hd, nf, p, name, cenv) ==
    IF name = None
    THEN CalcResult(Num(0), Err("ValueError", MsgNoStrategy), None, None, NoLabel)
    ELSE CalcPropComputed(
           p, name,
           CallStrategy(name, f, hd, p.prop, p.index,
                        cenv.hv, cenv.rpv, cenv.ierr),
           GetNormalizingFluid(nf, f), hd, cenv)

\* _calc_prop after the token is parsed.
CalcPropParsed(f, hd, nf, p, cenv) ==
    IF p.err # NoErr THEN CalcResult(Num(0), p.err, None, None, NoLabel)
    ELSE CalcPropSelected(f, hd, nf, p, SelectStrategy(hd, p.prop), cenv)

\* Fluid._calc_prop.  cenv is what the user's handlers and the reference
\* backend return during the call: hv and rpv on the instance, nhv and nrpv
\* on the normalizing fluid, ierr the reference backend's error code.
\* np.round leaves the model's whole numbers as they are.
CalcPropOp(f, reg, hd, nf, prop_str, cenv) ==
    CalcPropParsed(f, hd, nf, ParsePropertyString(reg, prop_str), cenv)

\* What one calc_props call did: the values (none when a property raised),
\* the exception, and calls, what each _calc_prop call did in order.
CalcPropsResult(vals, err, calls) == [vals |-> vals, err |-> err, calls |-> calls]

\* calc_props: the values of the properties after the first, joined to c.
CalcPropsJoin(c, rest) ==
    IF rest.err # NoErr THEN CalcPropsResult(<<>>, rest.err, <<c>> \o rest.calls)
    ELSE CalcPropsResult(<<c.val>> \o rest.vals, NoErr, <<c>> \o rest.calls)

\* Fluid.calc_props: the list comprehension stops at the first property
\* that raises, and then no array is returned.
RECURSIVE CalcPropsOp(_, _, _, _, _, _)
CalcPropsNext(c, f, reg, hd, nf, rest, cenv) ==
    IF c.err # NoErr THEN CalcPropsResult(<<>>, c.err, <<c>>)
    ELSE CalcPropsJoin(c, CalcPropsOp(f, reg, hd, nf, rest, cenv))

CalcPropsOp(f, reg, hd, nf, prop_strs, cenv) ==
    IF prop_strs = <<>> THEN CalcPropsResult(<<>>, NoErr, <<>>)
    ELSE CalcPropsNext(CalcPropOp(f, reg, hd, nf, Head(prop_strs), cenv),
                       f, reg, hd, nf, Tail(prop_strs), cenv)

\* ------------------------------------------------------------ batch

\* What one set_states_calc_props call did: the instance after it, the
\* exception that left it, whether a table was returned and the table, and
\* log, the outcome of every row it processed in order.
BatchResult(f, err, returned, table, log) ==
    [f |-> f, err |-> err, returned |-> returned, table |-> table, log |-> log]

\* The arguments of set_states_calc_props that its loop does not change:
\* the registries, the normalizing fluid, the two tokens, the targets and
\* what the handlers and the reference backend return.
BatchArgs(reg, hd, nf, p1, p2, targets, cenv) ==
    [reg |-> reg, hd |-> hd, nf |-> nf, p1 |-> p1, p2 |-> p2,
     targets |-> targets, cenv |-> cenv]

RECURSIVE BatchLoop(_, _, _, _, _)

\* One row of the loop with a failure skipped (its row of the table left
\* empty) instead of ending the call.
BatchRowSkip(st, cs, c, rows, envs, acc) ==
    IF st.err # NoErr
    THEN BatchLoop(st.f, c, rows, envs,
                   [table |-> Append(acc.table, <<>>),
                    log |-> Append(acc.log, st.err)])
    ELSE IF cs.err # NoErr
    THEN BatchLoop(st.f, c, rows, envs,
                   [table |-> Append(acc.table, <<>>),
                    log |-> Append(acc.log, cs.err)])
    ELSE BatchLoop(st.f, c, rows, envs,
                   [table |-> Append(acc.table, cs.vals),
                    log |-> Append(acc.log, NoErr)])

\* One row of the loop of set_states_calc_props: set_state gave st,
\* calc_props on the instance it left gave cs; rows and envs are what is
\* left.  An exception of either ends the call and no table is returned.
BatchRow(st, cs, c, rows, envs, acc) ==
    IF st.err # NoErr
    THEN BatchResult(st.f, st.err, FALSE, <<>>, Append(acc.log, st.err))
    ELSE IF cs.err # NoErr
    THEN BatchResult(st.f, cs.err, FALSE, <<>>, Append(acc.log, cs.err))
    ELSE BatchLoop(st.f, c, rows, envs,
                   [table |-> Append(acc.table, cs.vals),
                    log |-> Append(acc.log, NoErr)])

\* set_state(prop_str_1, prop_str_2, values, use_guesses=True) of one row.
BatchSetState(f, c, values, env) ==
    SetStateOp(f, c.reg, c.nf, c.p1, c.p2, values, TRUE, env)

\* One row: set_state, then calc_props on the instance it left.
BatchStep(st, c, rows, envs, acc) ==
    BatchRow(st, CalcPropsOp(st.f, c.reg, c.hd, c.nf, c.targets, c.cenv),
             c, rows, envs, acc)

\* The loop of set_states_calc_props over the rows left, acc holding the
\* rows of the table filled so far.  envs gives, row by row, what the
\* backend does during that row's set_state.
BatchLoop(f, c, rows, envs, acc) ==
    IF rows = <<>> THEN BatchResult(f, NoErr, TRUE, acc.table, acc.log)
    ELSE BatchStep(BatchSetState(f, c, Head(rows), Head(envs)),
                   c, Tail(rows), Tail(envs), acc)

\* Fluid.set_states_calc_props
SetStatesCalcPropsOp(f, c, prop_values, envs) ==
    BatchLoop(f, c, prop_values, envs, [table |-> <<>>, log |-> <<>>])

\* ------------------------------------------------------------ environment

\* Largest value a caller passes in prop_values.
MaxVal == 2

\* The rows of values given to set_state.
ValueRows == { <<v, 1>> : v \in 1..MaxVal }

\* The value the backend gives a parameter that was not a flash input.
OutVals == {3}

\* The backend during a call whose every update converges and whose phase()
\* answers gas.
EnvOk(w) ==
    [flash |-> Converged, cls |-> "iphase_gas", Q |-> 0, Tr |-> 0, Pr |-> 0,
     reflash |-> Converged, root |-> "converged", rootQ |-> Scale \div 2,
     w |-> w]

RootOutcomes == {"converged", "unbracketed", "update_failed"}

\* What the backend may do during one set_state call.  Fields that the
\* call never reads on a path are left as in EnvOk.
Envs ==
    UNION { LET ok == EnvOk(w) IN
        \* the primary flash raises
        { [ok EXCEPT !.flash = MsgTwoPhase, !.root = r] : r \in RootOutcomes }
        \cup { [ok EXCEPT !.flash = Msg2Phase], [ok EXCEPT !.flash = MsgOther] }
        \* the flash converges and phase() answers
        \cup { ok, [ok EXCEPT !.cls = "iphase_unknown"] }
        \* the flash converges, phase() answers, the D,T update raises
        \cup { [ok EXCEPT !.reflash = MsgOther] }
        \cup { [ok EXCEPT !.reflash = MsgTwoPhase, !.root = r] :
              r \in {"converged", "unbracketed"} }
        \* the flash converges, phase() raises: the manual table, on a
        \* two-phase state and on a state the backend reports as NaN
        \cup { [ok EXCEPT !.cls = "raise", !.Q = Scale \div 2,
                          !.Tr = (Scale \div 10) * 8, !.Pr = Scale \div 2],
               [ok EXCEPT !.cls = "raise", !.Q = NaN, !.Tr = NaN, !.Pr = NaN] }
      : w \in OutVals }

\* Property tokens given to set_state: plain, normalized, unregistered,
\* malformed.
Tok_T == <<"T">>
Tok_P == <<"p">>
Tok_D == <<"D">>
Tok_Tn == <<"T", "*">>
Tok_ZZZ == <<"Z", "Z", "Z">>
Tok_Tss == <<"T", "*", "*">>

\* A set_state call: the two tokens, the values, use_guesses, and what the
\* backend does during it.
Call(p1, p2, values, g, env) ==
    [p1 |-> p1, p2 |-> p2, values |-> values, use_guesses |-> g, env |-> env]

\* The set_state calls tried: a pressure-temperature flash under every
\* behaviour of the backend, the same with guesses enabled where the flash
\* or the root search converges, and calls that end before any flash (a
\* normalized token, an unregistered one, a malformed one, a pair the
\* backend cannot flash on).
SetStateCalls ==
    { Call(Tok_P, Tok_T, v, FALSE, env) : v \in ValueRows, env \in Envs }
    \cup { Call(Tok_P, Tok_T, v, TRUE, env) :
          v \in ValueRows, env \in { e \in Envs : e.reflash = Converged
                                                   /\ e.cls = "iphase_gas"
                                                   /\ e.root = "converged" } }
    \cup { Call(pp[1], pp[2], <<1, 1>>, FALSE, EnvOk(0)) :
          pp \in { <<Tok_Tn, Tok_P>>, <<Tok_T, Tok_ZZZ>>,
                   <<Tok_Tss, Tok_P>>, <<Tok_T, Tok_T>> } }

\* Keys given to specify_phase: two phases, a key of no item, the key of a
\* property.
PhaseKeyArgs == { K_gas, <<"L","i","q","u","i","d">>, Tok_ZZZ, K_T }

\* ------------------------------------------------------------ Spec: the engine

Init ==
    /\ registry = InitRegistry
    /\ handlers = {K_PHASE}
    /\ fluid = NewFluid
    /\ norm = NoNorm
    /\ input = <<>>
    /\ last = [op |-> "init", recorded |-> NoGuess, specified |-> FALSE]

\* fluid.specify_phase(phase_key, impose).  last remembers, besides the
\* call, two facts of the calls so far: recorded, what T(), p(), rhomolar()
\* gave at the end of the most recent set_state that returned normally
\* (NoGuess: none has), and specified, whether specify_phase was ever called.
SpecifyPhase ==
    \E key \in PhaseKeyArgs, impose \in BOOLEAN :
        LET r == SpecifyPhaseOp(fluid, registry, key, impose)
        IN  /\ fluid' = r.f
            /\ last' = [op |-> "specify_phase", key |-> key, impose |-> impose,
                        err |-> r.err,
                        recorded |-> last.recorded, specified |-> TRUE]
            /\ UNCHANGED <<registry, handlers, norm, input>>

\* fluid.set_state(prop_str_1, prop_str_2, prop_values, use_guesses)
SetState ==
    \E c \in SetStateCalls :
        LET r == SetStateOp(fluid, registry, norm, c.p1, c.p2, c.values,
                            c.use_guesses, c.env)
        IN  /\ fluid' = r.f
            /\ last' = [op |-> "set_state", p1 |-> c.p1, p2 |-> c.p2,
                        use_guesses |-> c.use_guesses,
                        env |-> IF r.nflash = 0 THEN EnvOk(0) ELSE c.env,
                        err |-> r.err, path |-> r.path, guess |-> r.guess,
                        nflash |-> r.nflash, nroot |-> r.nroot,
                        recorded |-> IF r.err # NoErr THEN last.recorded
                                     ELSE << r.f.state.out["iT"],
                                             r.f.state.out["iP"],
                                             r.f.state.out["iDmolar"] >>,
                        specified |-> last.specified]
            /\ UNCHANGED <<registry, handlers, norm, input>>

Next == SpecifyPhase \/ SetState

Spec == Init /\ [][Next]_vars

\* C1: once a phase has been imposed, a set_state call, whatever its
\* outcome, leaves the phase-imposed flag set and the instance's phase the
\* one it was before the call.
C1_ImposedPhaseKept ==
    [][(fluid.phase_imposed /\ last'.op = "set_state")
        => (fluid'.phase_imposed /\ fluid'.phase = fluid.phase)]_vars

\* C2: a set_state call starts the root search exactly when its primary
\* flash raised a two-phase message; a primary flash that raised another
\* message leaves the call with that very exception.
C2_RootSearchIffFlashTwoPhase ==
    last.op = "set_state" =>
        /\ last.nroot >= 1
             <=> (last.nflash = 1 /\ IsTwoPhaseMessage(last.env.flash))
        /\ (last.nflash = 1 /\ last.env.flash # Converged
              /\ ~IsTwoPhaseMessage(last.env.flash))
             => last.err = Err("ValueError", last.env.flash)

\* C3: a set_state call flashes at most once and searches at most once;
\* when its root search is not bracketed the call leaves with brentq's
\* exception, and the last update the backend saw is the search's own.
C3_FallbackOnce ==
    last.op = "set_state" =>
        /\ last.nflash <= 1 /\ last.nroot <= 1
        /\ (last.nroot = 1 /\ last.env.root = "unbracketed")
             => /\ last.err = Err("ValueError", MsgNotBracketed)
                /\ fluid.state.via = "rootsearch"

\* A call whose primary flash raised a two-phase message and whose root
\* search was not bracketed.
C3_Witness ==
    /\ last.op = "set_state"
    /\ last.nflash = 1 /\ last.nroot = 1
    /\ IsTwoPhaseMessage(last.env.flash)
    /\ last.env.root = "unbracketed"
    /\ last.err # NoErr

\* ------------------------------------------------------------ SpecPhase: the manual table

\* Reduced temperatures and pressures tried: far from 1, at 1, at both
\* sides of np.isclose's tolerance (1001 units of 1e-8), inside and at 1%,
\* and NaN.
ReducedVals ==
    { NaN, (Scale \div 10) * 8, Scale - Scale \div 100, Scale - Scale \div 200,
      Scale - 1002, Scale - 1001, Scale, Scale + 1001, Scale + 1002,
      Scale + Scale \div 200, Scale + Scale \div 100, (Scale \div 10) * 12 }

\* Vapour qualities tried: below, at and above the ends of [0, 1], and NaN.
QVals == { NaN, -(Scale \div 5), 0, Scale \div 2, Scale, (Scale \div 2) * 3 }

\* The backend during a _calc_phase call in which phase() raises.
EnvManual(Q, T_r, P_r, reflash) ==
    [EnvOk(0) EXCEPT !.cls = "raise", !.Q = Q, !.Tr = T_r, !.Pr = P_r,
                     !.reflash = reflash]

\* The instance as the primary flash of set_state leaves it, with the
\* backend about to give (Q, T_r, P_r) = input.
InitPhase ==
    /\ registry = InitRegistry
    /\ handlers = {K_PHASE}
    /\ fluid = [NewFluid EXCEPT !.state =
                   Flashed(NewBackend, "update", "iP", 1, "iT", 1, 0)]
    /\ norm = NoNorm
    /\ input \in QVals \X ReducedVals \X ReducedVals
    /\ last = [op |-> "init"]

\* fluid._calc_phase() with phase() raising ValueError.
CalcPhaseManual ==
    /\ last.op = "init"
    /\ \E reflash \in {Converged, MsgOther} :
         \E r \in { CalcPhase(fluid, registry,
                              EnvManual(input[1], input[2], input[3], reflash)) } :
             /\ fluid' = r.f
             /\ last' = [op |-> "calc_phase", reflash |-> reflash, err |-> r.err]
    /\ UNCHANGED <<registry, handlers, norm, input>>

NextPhase == CalcPhaseManual

SpecPhase == InitPhase /\ [][NextPhase]_vars

\* The rows of the documented table in the documented order, each with
\* whether (Q, T_r, P_r) matches it.
TableRows(Q, T_r, P_r) ==
    << [key |-> K_critical_point,
        hit |-> IsClose(T_r, Scale) /\ IsClose(P_r, Scale)],
       [key |-> K_supercritical,
        hit |-> T_r # NaN /\ P_r # NaN /\ T_r >= Scale /\ P_r >= Scale],
       [key |-> K_supercritical_gas,
        hit |-> T_r # NaN /\ P_r # NaN /\ T_r > Scale /\ P_r < Scale],
       [key |-> K_supercritical_liquid,
        hit |-> T_r # NaN /\ P_r # NaN /\ T_r < Scale /\ P_r > Scale],
       [key |-> K_gas, hit |-> Q # NaN /\ Q > Scale],
       [key |-> K_liquid, hit |-> Q # NaN /\ Q < 0],
       [key |-> K_twophase, hit |-> Q # NaN /\ Q >= 0 /\ Q <= Scale] >>

\* C7: the manual classifier records the phase of the first row of the
\* documented table that matches (Q, T_r, P_r), and raises, recording no
\* phase, exactly when no row matches.
C7_FirstMatchingRow ==
    last.op = "calc_phase" =>
        LET rows == TableRows(input[1], input[2], input[3])
            hits == { i \in 1..Len(rows) : rows[i].hit }
        IN  /\ hits = {} <=> (last.err = Err("ValueError", MsgPhaseError)
                              /\ fluid.phase = NoItem)
            /\ \A i \in hits :
                 (\A j \in hits : i <= j) =>
                     /\ fluid.phase.key = rows[i].key
                     /\ fluid.phase.cls = "Phase"
                     /\ last.err.msg # MsgPhaseError

\* A state whose T_r, P_r match the supercritical gas row and whose Q
\* matches the gas row: the T_r/P_r row won.
C7_Witness ==
    /\ last.op = "calc_phase"
    /\ input[1] > Scale
    /\ input[2] > Scale + 1001 /\ input[3] # NaN /\ input[3] < Scale - 1001
    /\ fluid.phase.key = K_supercritical_gas

\* C8 as the documentation states it: T_r and P_r both within 1% of 1 is
\* the critical point.
C8_OnePercent ==
    (/\ last.op = "calc_phase"
     /\ input[2] # NaN /\ input[3] # NaN
     /\ Abs(input[2] - Scale) <= Scale \div 100
     /\ Abs(input[3] - Scale) <= Scale \div 100)
    => fluid.phase.key = K_critical_point

\* C8: the manual classifier records the critical point exactly when T_r
\* and P_r are both within 1e-8 + 1e-5 of 1 (np.isclose's defaults); at
\* T_r = 1.005, P_r = 0.995 it records supercritical gas.
C8_IsCloseTolerance ==
    last.op = "calc_phase" =>
        /\ fluid.phase.key = K_critical_point
             <=> /\ input[2] # NaN /\ input[3] # NaN
                 /\ Abs(input[2] - Scale) <= 1001
                 /\ Abs(input[3] - Scale) <= 1001
        /\ (input[2] = Scale + Scale \div 200 /\ input[3] = Scale - Scale \div 200)
             => fluid.phase.key = K_supercritical_gas

\* T_r = 1.005, P_r = 0.995 classified.
C8_Witness ==
    /\ last.op = "calc_phase"
    /\ input[2] = Scale + Scale \div 200 /\ input[3] = Scale - Scale \div 200
    /\ fluid.phase.key = K_supercritical_gas

\* ------------------------------------------------------------ SpecParse: the parser

InitParse ==
    /\ registry = InitRegistry
    /\ handlers = {K_PHASE}
    /\ fluid = NewFluid
    /\ norm = NoNorm
    /\ input \in Tokens
    /\ last = [op |-> "init"]

\* parse_property_string(input)
Parse ==
    /\ last.op = "init"
    /\ \E r \in { ParsePropertyString(registry, input) } :
         last' = [op |-> "parse", prop |-> r.prop, index |-> r.index,
                  normalized |-> r.normalized, err |-> r.err]
    /\ UNCHANGED <<registry, handlers, fluid, norm, input>>

NextParse == Parse

SpecParse == InitParse /\ [][NextParse]_vars

\* "(n)" for a run of one or more digits.
IsIndexPart(t) ==
    /\ Len(t) >= 3 /\ t[1] = "(" /\ t[Len(t)] = ")"
    /\ \A i \in 2..(Len(t) - 1) : IsDigit(t[i])

\* The token t split as BASE, "(n)" or nothing, "*" or nothing: where the
\* base ends and whether there is a star.
Splits(t) ==
    { sp \in [b : 1..Len(t), star : BOOLEAN] :
        LET e == IF sp.star THEN Len(t) - 1 ELSE Len(t)
        IN  /\ sp.star => (Len(t) >= 2 /\ t[Len(t)] = "*")
            /\ sp.b <= e
            /\ \A i \in 1..sp.b : Upper(<<t[i]>>)[1] \in BaseChars
            /\ (sp.b = e \/ IsIndexPart(SubSeq(t, sp.b + 1, e))) }

\* The keys under which a property is registered.
PropertyKeys(reg) == { k \in DOMAIN reg : reg[k].cls = "Property" }

\* C9: parse_property_string succeeds exactly on the tokens BASE, BASE(n),
\* BASE*, BASE(n)* whose BASE is, ignoring case, the key of a registered
\* property, and then returns that property, n or none, and the flag;
\* "1T", "T**" and "(T)" fail with the format failure, "ZZZ" with the
\* lookup failure, and the two failures differ.
C9_ParseExactly ==
    last.op = "parse" =>
        LET good == { sp \in Splits(input) :
                        Upper(SubSeq(input, 1, sp.b)) \in PropertyKeys(registry) }
        IN  /\ last.err = NoErr <=> good # {}
            /\ \A sp \in good :
                 /\ last.prop = registry[Upper(SubSeq(input, 1, sp.b))]
                 /\ last.normalized = sp.star
                 /\ last.index =
                      (LET e == IF sp.star THEN Len(input) - 1 ELSE Len(input)
                       IN  IF sp.b = e THEN NoIndex
                           ELSE IntOf(SubSeq(input, sp.b + 2, e - 1)))
            /\ input \in { <<"1","T">>, <<"T","*","*">>, <<"(","T",")">> }
                 => last.err = Err("ValueError", MsgInvalidFormat)
            /\ input = <<"Z","Z","Z">>
                 => last.err = Err("ValueError", MsgPropNotFound)
            /\ MsgInvalidFormat # MsgPropNotFound

\* ------------------------------------------------------------ SpecReg: the registry

K_X == <<"X">>
K_x == <<"x">>
K_Y == <<"Y">>

\* Keys given to register: new ones in both casings, and keys of the
\* initial table in another casing.
RegisterKeys == { K_X, K_x, K_Y, <<"t">>, <<"G","a","s">> }

\* Items given to register: two different items for every key.
RegisterItems ==
    { MkItem("Property", k, n, None, None) : k \in RegisterKeys, n \in {"a", "b"} }

\* Keys given to get: registered or not, in several casings.
GetKeys == { K_X, K_x, K_Y, <<"y">>, K_T, <<"t">>, K_gas, <<"G","A","S">>, Tok_ZZZ }

\* Registry.register(item), by any of the registry classes.
Register ==
    \E item \in RegisterItems :
        \E r \in { RegisterOp(registry, item) } :
            /\ registry' = r.reg
            /\ last' = [op |-> "register", item |-> item, err |-> r.err]
            /\ UNCHANGED <<handlers, fluid, norm, input>>

\* Registry.get(key), by any of the registry classes.
Get ==
    \E key \in GetKeys :
        \E r \in { GetOp(registry, key) } :
            /\ last' = [op |-> "get", key |-> key, item |-> r.item, err |-> r.err]
            /\ UNCHANGED <<registry, handlers, fluid, norm, input>>

NextReg == Register \/ Get

SpecReg == Init /\ [][NextReg]_vars

\* No two items of the table have keys that are equal ignoring case.
NoTwoEqualIgnoringCase(reg) ==
    \A k1, k2 \in DOMAIN reg :
        Upper(reg[k1].key) = Upper(reg[k2].key) => k1 = k2

\* The items of the table whose key equals key ignoring case.
Holding(reg, key) == { k \in DOMAIN reg : Upper(reg[k].key) = Upper(key) }

\* C10: the table never holds two items with keys equal ignoring case;
\* register of a key that is present ignoring case raises and leaves the
\* table as it was, register of a new key adds the item and nothing else;
\* get returns, for every casing, the one item with that key, raises
\* KeyError when there is none, and leaves the table as it was.
C10_UniqueIgnoringCase ==
    /\ NoTwoEqualIgnoringCase(registry)
    /\ [][/\ NoTwoEqualIgnoringCase(registry')
          /\ last'.op = "register" =>
               IF Holding(registry, last'.item.key) # {}
               THEN /\ last'.err = Err("ValueError", MsgDuplicate)
                    /\ registry' = registry
               ELSE /\ last'.err = NoErr
                    /\ \E k \in DOMAIN registry' :
                         /\ DOMAIN registry' = DOMAIN registry \cup {k}
                         /\ registry'[k] = last'.item
                         /\ \A j \in DOMAIN registry : registry'[j] = registry[j]
          /\ last'.op = "get" =>
               /\ registry' = registry
               /\ IF Holding(registry, last'.key) # {}
                  THEN /\ last'.err = NoErr
                       /\ \A k \in Holding(registry, last'.key) :
                            last'.item = registry[k]
                  ELSE last'.err = Err("KeyError", MsgNotInRegistry)
       ]_vars

\* A register that failed on a key written in another casing than the one
\* under which an earlier register call stored its item.
C10_Witness ==
    /\ last.op = "register" /\ last.err = Err("ValueError", MsgDuplicate)
    /\ Upper(last.item.key) = K_X
    /\ \E k \in Holding(registry, last.item.key) :
         registry[k].key # last.item.key

\* ------------------------------------------------------------ SpecCalc: calc_props

\* register_prop storing the handler whether or not the registration
\* raised.
RegisterPropDoneAlways(r, hd, key) ==
    [reg |-> r.reg, hd |-> hd \cup {Upper(key)}, err |-> r.err]

\* Fluid.register_prop(key, **kwargs) applied as a decorator, after
\* PropertyRegistry.register gave r: when it raised, the decorator is never
\* returned and no handler is stored.
RegisterPropDone(r, hd, key) ==
    IF r.err # NoErr THEN [reg |-> r.reg, hd |-> hd, err |-> r.err]
    ELSE [reg |-> r.reg, hd |-> hd \cup {Upper(key)}, err |-> NoErr]

\* Fluid.register_prop: the item's key is key.upper().
RegisterPropOp(reg, hd, key, name, cp, rp) ==
    RegisterPropDone(RegisterOp(reg, MkItem("Property", Upper(key), name, cp, rp)),
                     hd, key)

\* The user's property: its backend index and reference label, each given
\* or not.
UserCp == {None, "iviscosity", "iT"}
UserRp == {None, "XL"}

\* Another instance, set by ("T", "D") as the package's test sets its
\* normalizing fluid.
OtherFluid ==
    SetStateOp(NewFluid, InitRegistry, NoNorm, Tok_T, Tok_D, <<2, 2>>, FALSE,
               EnvOk(4)).f

\* What the user's handler and the reference backend return during a
\* calc_props call, on the instance and on the normalizing fluid; the
\* reference backend's error code is 0 or above 100.
CalcEnvs ==
    { [hv |-> 10, rpv |-> 20, nhv |-> 2, nrpv |-> 5, ierr |-> e] : e \in {0, 101} }

\* The same when the normalizing fluid is ref: when it is the instance
\* itself, the handler and the reference backend are asked twice about one
\* instance in one state, and answer the same twice.
CalcEnvsFor(ref) ==
    IF ref = "self"
    THEN { [e EXCEPT !.nhv = e.hv, !.nrpv = e.rpv] : e \in CalcEnvs }
    ELSE CalcEnvs

Tok_X == <<"x">>
Tok_Xn == <<"X", "*">>
Tok_PHASE == <<"P","H","A","S","E">>
Tok_Pn == <<"P", "*">>
Tok_X0 == <<"X", "(", "0", ")">>
Tok_X1 == <<"X", "(", "1", ")">>

\* The property lists given to calc_props.
CalcRequests ==
    { <<Tok_X>>, <<Tok_Xn>>, <<Tok_T>>, <<Tok_Tn>>, <<Tok_PHASE>>, <<Tok_ZZZ>>,
      <<Tok_T, Tok_Xn>>, <<Tok_X, Tok_PHASE>>,
      <<Tok_X0>>, <<Tok_X1>>, <<Tok_Tn, Tok_Pn>>, <<Tok_Xn, Tok_Pn>> }

\* Largest value a set_state of this specification flashes on.
MaxFlash == 9

\* The set_state calls tried: the plain one and two with both properties
\* normalized.
PlainCalls ==
    { <<Tok_P, Tok_T, <<1, 1>>>>,
      <<Tok_Tn, Tok_Pn, <<3, 2>>>>,
      <<Tok_Xn, Tok_Pn, <<3, 2>>>> }

\* @Fluid.register_prop(key, cp_index=cp, rp_label=rp) on a function
RegisterProp ==
    \E cp \in UserCp, rp \in UserRp :
        \E r \in { RegisterPropOp(registry, handlers, Tok_X, None, cp, rp) } :
            /\ registry' = r.reg
            /\ handlers' = r.hd
            /\ last' = [op |-> "register_prop", err |-> r.err]
            /\ UNCHANGED <<fluid, norm, input>>

\* PropertyRegistry.register(Property(key="X", cp_index=cp, rp_label=rp))
RegisterPlain ==
    \E cp \in UserCp, rp \in UserRp :
        \E r \in { RegisterOp(registry, MkItem("Property", K_X, None, cp, rp)) } :
            /\ registry' = r.reg
            /\ last' = [op |-> "register", err |-> r.err]
            /\ UNCHANGED <<handlers, fluid, norm, input>>

\* Fluid.set_normalizing_fluid(fluid) with the instance itself or another.
SetNormalizingFluid ==
    \E ref \in {"self", "other"} :
        /\ norm' = [ref |-> ref, f |-> IF ref = "other" THEN OtherFluid ELSE NewFluid]
        /\ last' = [op |-> "set_normalizing_fluid"]
        /\ UNCHANGED <<registry, handlers, fluid, input>>

\* fluid.set_state(p1, p2, values) with the backend converging; last
\* remembers the call, its exception and how many flashes and root
\* searches it started.
SetStatePlain ==
    \E c \in PlainCalls :
        \E r \in { SetStateOp(fluid, registry, norm, c[1], c[2], c[3], FALSE,
                              EnvOk(12)) } :
            /\ r.f.state.out["iT"] <= MaxFlash
            /\ r.f.state.out["iP"] <= MaxFlash
            /\ fluid' = r.f
            /\ last' = [op |-> "set_state", p1 |-> c[1], p2 |-> c[2],
                        values |-> c[3], err |-> r.err,
                        nflash |-> r.nflash, nroot |-> r.nroot]
            /\ UNCHANGED <<registry, handlers, norm, input>>

\* fluid.calc_props(prop_strs)
CalcProps ==
    \E prop_strs \in CalcRequests, cenv \in CalcEnvsFor(norm.ref) :
        \E r \in { CalcPropsOp(fluid, registry, handlers, norm, prop_strs, cenv) } :
            /\ last' = [op |-> "calc_props", prop_strs |-> prop_strs,
                        cenv |-> cenv, vals |-> r.vals, err |-> r.err,
                        calls |-> r.calls]
            /\ UNCHANGED <<registry, handlers, fluid, norm, input>>

NextCalc ==
    RegisterProp \/ RegisterPlain \/ SetNormalizingFluid \/ SetStatePlain \/ CalcProps

SpecCalc == Init /\ [][NextCalc]_vars

\* The strategy the documented order gives a property: handler, primary
\* backend, reference backend, none.
Documented(prop) ==
    IF prop.key \in handlers THEN "_calc_prop_hd"
    ELSE IF prop.cp_index # None THEN "_calc_prop_cp"
    ELSE IF prop.rp_label # None THEN "_calc_prop_rp"
    ELSE None

\* What the strategy named m gives for the user's property on instance g:
\* the handler's result h, the backend's keyed output, the reference
\* backend's output o.
ByStrategy(m, g, prop, h, o) ==
    IF m = "_calc_prop_hd" THEN h
    ELSE IF m = "_calc_prop_cp" THEN KeyedOutput(g.state, prop.cp_index).v
    ELSE o

\* C6: every _calc_prop call of calc_props selects handler, else primary
\* backend, else reference backend, else raises the unsupported-property
\* error; its value is the one that strategy gives, and for a normalized
\* request the quotient by what the same strategy gives on the normalizing
\* fluid.
C6_StrategyOrder ==
    last.op = "calc_props" =>
        \A i \in 1..Len(last.calls) :
            LET c == last.calls[i]
                p == ParsePropertyString(registry, last.prop_strs[i])
                n == GetNormalizingFluid(norm, fluid).f
            IN  p.err = NoErr =>
                  /\ c.method = Documented(p.prop)
                  /\ c.method = None <=> c.err = Err("ValueError", MsgNoStrategy)
                  /\ c.normMethod \in {None, c.method}
                  /\ (c.err = NoErr /\ p.normalized) => c.normMethod = c.method
                  /\ (c.err = NoErr /\ p.prop.key = K_X) =>
                       c.val = IF p.normalized
                               THEN Divide(
                                      Num(ByStrategy(c.method, fluid, p.prop,
                                                     last.cenv.hv, last.cenv.rpv)),
                                      Num(ByStrategy(c.method, n, p.prop,
                                                     last.cenv.nhv, last.cenv.nrpv))
                                    ).val
                               ELSE Num(ByStrategy(c.method, fluid, p.prop,
                                                   last.cenv.hv, last.cenv.rpv))

\* A normalized request for a property that has a handler, a backend index
\* and a reference label: the handler was evaluated on both fluids.
C6_Witness ==
    /\ last.op = "calc_props" /\ last.err = NoErr
    /\ last.prop_strs = <<Tok_Xn>>
    /\ K_X \in handlers
    /\ registry[K_X].cp_index # None /\ registry[K_X].rp_label # None
    /\ norm.ref = "other"
    /\ last.calls[1].method = "_calc_prop_hd"
    /\ last.calls[1].normMethod = "_calc_prop_hd"
    /\ last.vals = <<Num(5)>>

\* ------------------------------------------------------------ SpecBatch: set_states_calc_props

\* Most rows a batch is given.
MaxRows == 2

\* The rows of a batch of n states: pressures 1..n at temperature 1.
BatchRows(n) == [i \in 1..n |-> <<i, 1>>]

\* What the backend may do during the set_state of one row: converge,
\* fail to converge in the two-phase region with the root search
\* converging, fail otherwise.
BatchEnvs ==
    { EnvOk(3), [EnvOk(3) EXCEPT !.flash = MsgTwoPhase],
      [EnvOk(3) EXCEPT !.flash = MsgOther] }

\* The target lists a batch is given: the second holds an unregistered
\* property.
BatchTargets == { <<Tok_PHASE, Tok_T>>, <<Tok_T, Tok_ZZZ>> }

\* Handlers and reference backend during a batch.
BatchCenv == [hv |-> 10, rpv |-> 20, nhv |-> 2, nrpv |-> 5, ierr |-> 0]

\* fluid.specify_phase("gas", impose)
SpecifyGas ==
    \E impose \in BOOLEAN :
        \E r \in { SpecifyPhaseOp(fluid, registry, K_gas, impose) } :
            /\ fluid' = r.f
            /\ last' = [op |-> "specify_phase", err |-> r.err]
            /\ UNCHANGED <<registry, handlers, norm, input>>

\* fluid.set_states_calc_props("p", "T", prop_values, target_props)
Batch ==
    \E n \in 0..MaxRows, targets \in BatchTargets :
        \E envs \in [1..n -> BatchEnvs] :
            \E r \in { SetStatesCalcPropsOp(
                         fluid,
                         BatchArgs(registry, handlers, norm, Tok_P, Tok_T,
                                   targets, BatchCenv),
                         BatchRows(n), envs) } :
                /\ fluid' = r.f
                /\ last' = [op |-> "batch", pre |-> fluid, rows |-> BatchRows(n),
                            envs |-> envs, targets |-> targets, err |-> r.err,
                            returned |-> r.returned, table |-> r.table,
                            log |-> r.log]
                /\ UNCHANGED <<registry, handlers, norm, input>>

NextBatch == SpecifyGas \/ Batch

SpecBatch == Init /\ [][NextBatch]_vars

\* set_state on row i's inputs from the instance as it was before the
\* batch, then calc_props of the batch's targets.
AloneState(i) ==
    SetStateOp(last.pre, registry, norm, Tok_P, Tok_T, last.rows[i], TRUE,
               last.envs[i])

Alone(i) ==
    CalcPropsOp(AloneState(i).f, registry, handlers, norm, last.targets, BatchCenv)

\* C4: a batch that returns gives a table of one row per state and one
\* cell per target, and row i holds what set_state on row i's inputs and
\* calc_props give on their own, whatever rows came before.
C4_RowsIndependent ==
    (last.op = "batch" /\ last.returned) =>
        /\ Len(last.table) = Len(last.rows)
        /\ \A i \in 1..Len(last.rows) :
             /\ Len(last.table[i]) = Len(last.targets)
             /\ AloneState(i).err = NoErr
             /\ Alone(i).err = NoErr
             /\ last.table[i] = Alone(i).vals

\* The instance after the batch's loop has run set_state on rows 1..k.
RECURSIVE AfterRows(_)
AfterRows(k) ==
    IF k = 0 THEN last.pre
    ELSE SetStateOp(AfterRows(k - 1), registry, norm, Tok_P, Tok_T,
                    last.rows[k], TRUE, last.envs[k]).f

\* The exception of row k in the loop: that of set_state, else that of
\* calc_props.
RowErr(k) ==
    LET st == SetStateOp(AfterRows(k - 1), registry, norm, Tok_P, Tok_T,
                         last.rows[k], TRUE, last.envs[k])
    IN  IF st.err # NoErr THEN st.err
        ELSE CalcPropsOp(st.f, registry, handlers, norm, last.targets, BatchCenv).err

\* C5: when set_state or calc_props raises on row i, the rows before it
\* having passed, the batch leaves with that exception, returns no table,
\* and processes no row after i: the instance is as row i left it.  When no
\* row raises, the batch returns a table of all the rows.
C5_BatchAborts ==
    last.op = "batch" =>
        LET bad == { i \in 1..Len(last.rows) : RowErr(i) # NoErr }
        IN  /\ \A i \in bad :
                 (\A j \in bad : i <= j) =>
                     /\ last.err = RowErr(i)
                     /\ ~last.returned
                     /\ last.table = <<>>
                     /\ Len(last.log) = i
                     /\ fluid = AfterRows(i)
            /\ bad = {} =>
                 /\ last.err = NoErr /\ last.returned
                 /\ Len(last.table) = Len(last.rows)
                 /\ Len(last.log) = Len(last.rows)

\* A batch of two rows whose first row raised, the second row's set_state
\* being one that converges.
C5_Witness ==
    /\ last.op = "batch"
    /\ Len(last.rows) = 2
    /\ last.envs[1].flash = MsgOther /\ last.envs[2].flash = Converged
    /\ last.targets = <<Tok_PHASE, Tok_T>>
    /\ last.err = Err("ValueError", MsgOther)
    /\ ~last.returned /\ Len(last.log) = 1

\* ------------------------------------------------------------ Spec: further properties

\* C11: specify_phase with a key under which no phase is registered raises
\* the registry's lookup failure.
C11_SeparateKeySpaces ==
    (/\ last.op = "specify_phase"
     /\ \A k \in Holding(registry, last.key) : registry[k].cls # "Phase")
    => last.err = Err("KeyError", MsgNotInRegistry)

\* The instance's last-converged triple.
Triple(f) == <<f.T, f.P, f.D>>

\* C16: the triple is what the backend gave at the end of the most recent
\* set_state that returned normally, and null while there has been none:
\* no failing set_state and no other call changes it.
C16_TripleFrame == Triple(fluid) = last.recorded

\* A set_state that failed in its root search after an earlier one had
\* returned normally, the backend now holding other values than the triple.
C16_Witness ==
    /\ last.op = "set_state" /\ last.err # NoErr /\ last.nroot = 1
    /\ last.recorded # NoGuess
    /\ Triple(fluid) = last.recorded
    /\ fluid.state.out["iP"] # fluid.P

\* C17: a set_state that reaches its flash takes the guess-accepting path
\* exactly when use_guesses is set and an earlier set_state returned
\* normally, and then supplies the triple of the most recent one;
\* otherwise it takes the unguessed path and supplies nothing.
C17_GuessPath ==
    [][(last'.op = "set_state" /\ last'.nflash = 1) =>
         IF last'.use_guesses /\ last.recorded # NoGuess
         THEN /\ last'.path = "update_with_guesses"
              /\ last'.guess = last.recorded
         ELSE /\ last'.path = "update"
              /\ last'.guess = NoGuess
      ]_vars

\* A set_state with guesses after one that returned normally.
C17_Witness ==
    /\ last.op = "set_state" /\ last.use_guesses
    /\ last.path = "update_with_guesses"
    /\ last.guess # NoGuess

\* C18: on an instance without an imposed phase on which specify_phase was
\* never called, every set_state that returns normally leaves the
\* backend's imposed phase cleared.
C18_BackendPhaseCleared ==
    (/\ last.op = "set_state" /\ last.err = NoErr
     /\ ~fluid.phase_imposed /\ ~last.specified)
    => fluid.state.imposed = "iphase_not_imposed"

\* C19: after a set_state that returns normally the instance's phase is a
\* phase held in the registry.
C19_PhaseIsRegisteredPhase ==
    (last.op = "set_state" /\ last.err = NoErr) =>
        /\ fluid.phase # NoItem
        /\ fluid.phase.cls = "Phase"
        /\ \E k \in DOMAIN registry : registry[k] = fluid.phase

\* ------------------------------------------------------------ SpecCalc: further properties

\* A token that ends in the normalization flag.
Flagged(t) == t # <<>> /\ t[Len(t)] = "*"

\* C12: while no normalizing fluid is set, a set_state with a flagged
\* token raises before any flash and leaves the instance (phase, triple,
\* backend) as it was, and a calc_props with a flagged token raises.
C12_UnsetNormalizationFails ==
    [][norm.ref = None =>
         /\ (last'.op = "set_state" /\ (Flagged(last'.p1) \/ Flagged(last'.p2)))
            => /\ last'.err # NoErr
               /\ last'.nflash = 0 /\ last'.nroot = 0
               /\ fluid' = fluid
         /\ (last'.op = "calc_props"
             /\ \E i \in 1..Len(last'.prop_strs) : Flagged(last'.prop_strs[i]))
            => /\ last'.err # NoErr
               /\ last'.vals = <<>>
      ]_vars

\* A normalized set_state refused for want of a normalizing fluid, on an
\* instance that already holds a state.
C12_Witness ==
    /\ last.op = "set_state" /\ Flagged(last.p1)
    /\ last.err = Err("ValueError", MsgNoNormFluid)
    /\ norm.ref = None
    /\ fluid.state.via = "DmolarT"

\* C13: with the instance itself as the normalizing fluid, every
\* normalized request whose strategy gives a number other than zero
\* returns exactly 1.
C13_SelfNormalizedIsOne ==
    (last.op = "calc_props" /\ norm.ref = "self") =>
        \A i \in 1..Len(last.calls) :
            LET c == last.calls[i]
                p == ParsePropertyString(registry, last.prop_strs[i])
                raw == CallStrategy(c.method, fluid, handlers, p.prop, p.index,
                                    last.cenv.hv, last.cenv.rpv, last.cenv.ierr)
            IN  (/\ p.err = NoErr /\ p.normalized /\ c.method # None
                 /\ raw.err = NoErr /\ raw.val.str = None /\ raw.val.num # 0)
                => c.err = NoErr /\ c.val = Num(1)

\* Two normalized requests answered 1: the first by a handler or the
\* reference backend, the second by the primary backend.
C13_Witness ==
    /\ last.op = "calc_props" /\ norm.ref = "self" /\ last.err = NoErr
    /\ last.prop_strs = <<Tok_Xn, Tok_Pn>>
    /\ last.calls[1].method \in {"_calc_prop_hd", "_calc_prop_rp"}
    /\ last.calls[2].method = "_calc_prop_cp"
    /\ last.vals = <<Num(1), Num(1)>>

\* C14: a request computed by the reference backend sends the property's
\* reference label when it has no output index, and the label followed by
\* index + 1 when it has one.
C14_ReferenceLabel ==
    last.op = "calc_props" =>
        \A i \in 1..Len(last.calls) :
            LET c == last.calls[i]
                p == ParsePropertyString(registry, last.prop_strs[i])
            IN  (c.method = "_calc_prop_rp" /\ c.err = NoErr) =>
                    c.label = [base |-> p.prop.rp_label,
                               n |-> IF p.index = NoIndex THEN NoIndex
                                     ELSE p.index + 1]

\* C15: every key of the handler table is the key of a registered
\* property; register_prop with a key that is present raises the
\* duplicate-key error and leaves the handler table and the registry as
\* they were.
C15_NoHandlerOnConflict ==
    /\ handlers \subseteq PropertyKeys(registry)
    /\ [][/\ handlers' \subseteq PropertyKeys(registry')
          /\ (last'.op = "register_prop" /\ Holding(registry, Tok_X) # {})
             => /\ last'.err = Err("ValueError", MsgDuplicate)
                /\ handlers' = handlers
                /\ registry' = registry
         ]_vars

\* register_prop refused for a key registered without a handler: there is
\* still none.
C15_Witness ==
    /\ last.op = "register_prop" /\ last.err = Err("ValueError", MsgDuplicate)
    /\ K_X \in DOMAIN registry
    /\ K_X \notin handlers

\* A calc_props of the two tokens of the set_state just before it, which
\* returned normally through the flash, the normalizing fluid being
\* another instance.
ReadBack ==
    /\ last.op = "set_state" /\ last.err = NoErr
    /\ last.nflash = 1 /\ last.nroot = 0
    /\ Flagged(last.p1) /\ Flagged(last.p2)
    /\ norm.ref = "other"
    /\ last'.op = "calc_props"
    /\ last'.prop_strs = <<last.p1, last.p2>>

\* C20 as stated: the read-back returns the values given to set_state.
C20_RoundTripAny ==
    [][ReadBack =>
          /\ last'.err = NoErr
          /\ last'.vals = <<Num(last.values[1]), Num(last.values[2])>>
      ]_vars

\* C20: the read-back returns the values given to set_state when neither
\* property has a handler, so that calc_props reads what set_state
\* multiplied by: the primary backend's keyed output.
C20_RoundTrip ==
    [][(/\ ReadBack
        /\ ParsePropertyString(registry, last.p1).prop.key \notin handlers
        /\ ParsePropertyString(registry, last.p2).prop.key \notin handlers)
       => /\ last'.err = NoErr
          /\ last'.vals = <<Num(last.values[1]), Num(last.values[2])>>
      ]_vars

\* T* and P* read back after they were set to 3 and 2 times the other
\* instance's T = 2 and P = 4.
C20_Witness ==
    /\ last.op = "calc_props" /\ last.err = NoErr
    /\ last.prop_strs = <<Tok_Tn, Tok_Pn>>
    /\ norm.ref = "other"
    /\ fluid.state.out["iT"] = 6 /\ fluid.state.out["iP"] = 8
    /\ last.vals = <<Num(3), Num(2)>>

====
